---- MODULE Spec2Model ----
(***************************************************************************)
(* Model of the experiment orchestrator (runner.py, class ExperimentRunner *)
(* and main) and of the watchdog (watchdog.py).  Both are separate OS      *)
(* processes that share one experiment directory: status.json, REPORT.md,  *)
(* PLAN.md, IDEA.md and the training scripts.                              *)
(*                                                                         *)
(* Time is counted in whole hours (the unit of the watchdog's thresholds). *)
(* The orchestrator is a sequential process; pc is its position.  Every    *)
(* action is one stretch of code between two points where another process  *)
(* (the watchdog, the assistant, the user) can act or time can pass.       *)
(* File input/output is taken to succeed; a write of status.json is three  *)
(* steps: save_status builds the document (reading the clock and whether   *)
(* REPORT.md exists), open(..., 'w') truncates the file, json.dump writes. *)
(***************************************************************************)
EXTENDS Integers, Sequences, FiniteSets, TLC

\* ------------------------------------------------------------ bounds
MaxTicks == 1
MaxIter == 2
NumSessions == 2
MaxAge == 26
MaxStoredIter == 22

\* ------------------------------------------------- program constants
MaxHoursDefault == 24
IterationCeiling == 20
StaleHours == 2
RetryBudget == 2
BackoffSeconds == 30

\* --------------------------------------------------------- value sets
PyNone == "<None>"
JsonNull == "<null>"
SessionNames == <<"sess-a", "sess-b", "sess-c", "sess-d">>
SessionIds == {SessionNames[i] : i \in 1..NumSessions}

VARIABLES
    now,            \* wall clock, hours
    ticks,          \* how often the clock has advanced
    ideaFile,       \* IDEA.md exists
    planFile,       \* PLAN.md exists
    reportFile,     \* REPORT.md: "none", or who wrote its present content
    scripts,        \* which of the candidate training scripts exist
    trainLogs,      \* iteration numbers N for which logs/iter_N_stdout.txt exists
    statusFile,     \* status.json: absent, torn (truncated) or a document
    pc,             \* orchestrator position; "off" = no orchestrator process
    max_iterations, \* self.max_iterations
    iteration,      \* self.iteration
    session_id,     \* self.session_id
    has_gpu_info,   \* hasattr(self, 'gpu_info')
    retry_count,    \* run_claude's retry_count parameter
    caller,         \* who called run_claude: "plan" or "iter"
    cmd,            \* the resume arguments of the assistant command last built
    claude_result,  \* the value run_claude returns
    claudeLog,      \* events of the current top-level run_claude call
    train_result,   \* (success, error) of run_training in this pass
    pending,        \* the document a started save_status is about to dump
    ret,            \* position to continue at when the dump is done
    exitCode,       \* exit code of the last orchestrator process (-1: none yet, or running)
    endedBy,        \* the statement that ended the last orchestrator process
    loopExit,       \* why the main loop was left in this run
    runStart,       \* clock value when run() began
    loaded          \* self.iteration when run() had read status.json

vars == <<now, ticks, ideaFile, planFile, reportFile, scripts, trainLogs,
          statusFile, pc, max_iterations, iteration, session_id, has_gpu_info,
          retry_count, caller, cmd, claude_result, claudeLog, train_result,
          pending, ret, exitCode, endedBy, loopExit, runStart, loaded>>

clockVars == <<now, ticks>>
fsVars == <<ideaFile, planFile, reportFile, scripts, trainLogs, statusFile>>
claudeVars == <<retry_count, caller, cmd, claude_result, claudeLog>>

\* ------------------------------------------------------- status.json
AbsentFile ==
    [state |-> "absent", iteration |-> 0, timestamp |-> 0, complete |-> FALSE,
     session_id |-> JsonNull]

TornFile ==
    [state |-> "torn", iteration |-> 0, timestamp |-> 0, complete |-> FALSE,
     session_id |-> JsonNull]

\* json.dump of a Python value: None becomes null
JsonOfPy(v) == IF v = PyNone THEN JsonNull ELSE v

\* json.load of a JSON value: null becomes None
PyOfJson(j) == IF j = JsonNull THEN PyNone ELSE j

\* the dict save_status builds and dumps
StatusDoc(iter, t, complete, sid) ==
    [state |-> "ok", iteration |-> iter, timestamp |-> t, complete |-> complete,
     session_id |-> JsonOfPy(sid)]

\* a constructor that never reads the stored session id
get_session_id_none(f) == PyNone

\* get_session_id: the stored session id, None when the file is absent or unreadable
get_session_id(f) ==
    IF f.state = "ok" THEN PyOfJson(f.session_id) ELSE PyNone

\* run() that starts counting from zero whatever the document holds
LoadIteration_zero(f) == 0

\* run(): status.get("iteration", 0) of a readable document
LoadIteration(f) == f.iteration

\* run() that does not look at the stored "complete"
LoadComplete_ignored(f) == FALSE

\* run(): status.get("complete", False)
LoadComplete(f) == f.complete

\* Python truthiness of self.session_id
Truthy(sid) == sid # PyNone /\ sid # ""

\* run_claude that never adds the resume flag
ResumeArgs_fresh(sid) == <<>>

\* run_claude: the --resume arguments added to the command
ResumeArgs(sid) == IF Truthy(sid) THEN <<"--resume", sid>> ELSE <<>>

\* run_training: first existing candidate script, or None
TrainScripts == <<"temp_check.py", "train.py">>

FindScript(existing) ==
    IF TrainScripts[1] \in existing THEN TrainScripts[1]
    ELSE IF TrainScripts[2] \in existing THEN TrainScripts[2]
    ELSE PyNone

\* ------------------------------------------------------------ watchdog
\* check_experiment with the hour budget compared by >= (an off-by-one)
check_experiment_ge(f, t, max_hours) ==
    IF f.state = "absent" THEN [stop |-> FALSE, reason |-> "no_status"]
    ELSE IF t - f.timestamp >= max_hours THEN [stop |-> TRUE, reason |-> "runtime"]
    ELSE IF f.iteration > IterationCeiling THEN [stop |-> TRUE, reason |-> "iterations"]
    ELSE IF t - f.timestamp > StaleHours THEN [stop |-> TRUE, reason |-> "stale"]
    ELSE [stop |-> FALSE, reason |-> "ok"]

\* check_experiment on a readable status document at clock value t
check_experiment(f, t, max_hours) ==
    IF f.state = "absent" THEN [stop |-> FALSE, reason |-> "no_status"]
    ELSE IF t - f.timestamp > max_hours THEN [stop |-> TRUE, reason |-> "runtime"]
    ELSE IF f.iteration > IterationCeiling THEN [stop |-> TRUE, reason |-> "iterations"]
    ELSE IF t - f.timestamp > StaleHours THEN [stop |-> TRUE, reason |-> "stale"]
    ELSE [stop |-> FALSE, reason |-> "ok"]

\* watchdog.py __main__ on status file f at clock value t, with REPORT.md in
\* state report: the exit code, the decision, the reason printed and REPORT.md
\* afterwards.  json.load of a truncated file raises, which ends the process
\* with exit code 1 before anything is written.
WatchdogMain(f, t, report) ==
    IF f.state = "torn"
      THEN [exit |-> 1, stop |-> FALSE, reason |-> "unreadable", report |-> report]
      ELSE LET r == check_experiment(f, t, MaxHoursDefault) IN
           [exit |-> 0, stop |-> r.stop, reason |-> r.reason,
            report |-> IF r.stop THEN "watchdog" ELSE report]

\* ---------------------------------------------------------------- Init
TypeOK ==
    /\ now \in Nat /\ ticks \in 0..MaxTicks
    /\ ideaFile \in BOOLEAN /\ planFile \in BOOLEAN
    /\ reportFile \in {"none", "assistant", "watchdog"}
    /\ scripts \subseteq {TrainScripts[1], TrainScripts[2]}
    /\ statusFile.state \in {"absent", "torn", "ok"}
    /\ iteration \in Nat
    /\ session_id \in SessionIds \cup {PyNone}
    /\ trainLogs \subseteq 1..(MaxStoredIter + MaxIter)
    /\ loaded \in Nat
    /\ endedBy \in {"none", "startup", "unreadable", "complete", "resource_check",
                    "plan_failed", "budget", "report", "interrupt"}

Init ==
    /\ now = 0
    /\ ticks = 0
    /\ ideaFile \in BOOLEAN
    /\ planFile \in BOOLEAN
    /\ reportFile = "none"
    /\ scripts \in {{}, {TrainScripts[2]}}
    /\ trainLogs = {}
    /\ statusFile = AbsentFile
    /\ pc = "off"
    /\ max_iterations = 0
    /\ iteration = 0
    /\ session_id = PyNone
    /\ has_gpu_info = FALSE
    /\ retry_count = 0
    /\ caller = "none"
    /\ cmd = <<>>
    /\ claude_result = FALSE
    /\ claudeLog = <<>>
    /\ train_result = <<FALSE, "none">>
    /\ pending = AbsentFile
    /\ ret = "none"
    /\ exitCode = -1
    /\ endedBy = "none"
    /\ loopExit = "none"
    /\ runStart = 0
    /\ loaded = 0

\* ------------------------------------------------------- orchestrator
\* save_status that always records complete = false
BeginSave_neverComplete(iter, sid, next) ==
    /\ pending' = StatusDoc(iter, now, FALSE, sid)
    /\ statusFile' = statusFile
    /\ ret' = next
    /\ pc' = "save_open"

\* save_status up to open(status_file, 'w'): the dict is built from
\* time.time() and report_file.exists()
BeginSave(iter, sid, next) ==
    /\ pending' = StatusDoc(iter, now, reportFile # "none", sid)
    /\ statusFile' = statusFile
    /\ ret' = next
    /\ pc' = "save_open"

\* outcomes of _check_resources; the last two end in sys.exit(1)
CheckOutcomes == {"gpu", "cpu", "import_error", "error"}

ResourceCheckExits(r) == r \in {"import_error", "error"}

\* the process ends (return from run(), sys.exit, uncaught exception): its
\* memory is gone
ProcessEnds(code, why) ==
    /\ pc' = "off"
    /\ exitCode' = code
    /\ endedBy' = why
    /\ max_iterations' = 0
    /\ iteration' = 0
    /\ session_id' = PyNone
    /\ has_gpu_info' = FALSE
    /\ retry_count' = 0
    /\ caller' = "none"
    /\ cmd' = <<>>
    /\ claude_result' = FALSE
    /\ claudeLog' = <<>>
    /\ train_result' = <<FALSE, "none">>
    /\ pending' = AbsentFile
    /\ ret' = "none"
    /\ loopExit' = "none"
    /\ runStart' = 0
    /\ loaded' = 0

\* run_claude up to subprocess.run: the command is built and the child started
StartClaude(who, rc) ==
    /\ caller' = who
    /\ retry_count' = rc
    /\ cmd' = ResumeArgs(session_id)
    /\ claudeLog' = Append(IF rc = 0 THEN <<>> ELSE claudeLog,
                            [ev |-> "spawn", secs |-> 0, sid |-> "<no key>"])
    /\ claude_result' = FALSE
    /\ pc' = "claude_running"

\* main() and ExperimentRunner.__init__: a new orchestrator process
Construct ==
    /\ pc = "off"
    /\ \E toolOk \in BOOLEAN, maxIt \in 0..MaxIter :
        IF ~toolOk \/ ~ideaFile
          THEN ProcessEnds(1, "startup")
          ELSE /\ pc' = "constructed"
               /\ exitCode' = -1
               /\ endedBy' = "none"
               /\ max_iterations' = maxIt
               /\ iteration' = 0
               /\ session_id' = get_session_id(statusFile)
               /\ UNCHANGED <<has_gpu_info, claudeVars, train_result, pending,
                              ret, loopExit, runStart, loaded>>
    /\ UNCHANGED <<clockVars, fsVars>>

\* run(), "Load previous iteration if resuming"
RunLoad ==
    /\ pc = "constructed"
    /\ IF statusFile.state = "torn"
         THEN ProcessEnds(1, "unreadable")
       ELSE IF statusFile.state = "ok" /\ LoadComplete(statusFile)
         THEN ProcessEnds(0, "complete")
       ELSE /\ pc' = "planning"
            /\ runStart' = now
            /\ loaded' = IF statusFile.state = "ok"
                           THEN LoadIteration(statusFile) ELSE iteration
            /\ iteration' = IF statusFile.state = "ok"
                              THEN LoadIteration(statusFile) ELSE iteration
            /\ UNCHANGED <<exitCode, endedBy, max_iterations, session_id,
                           has_gpu_info, claudeVars, train_result, pending, ret,
                           loopExit>>
    /\ UNCHANGED <<clockVars, fsVars>>

\* run(), "Create initial plan", and create_initial_plan up to run_claude
Planning ==
    /\ pc = "planning"
    /\ IF planFile
         THEN /\ pc' = "loop"
              /\ UNCHANGED <<exitCode, endedBy, max_iterations, iteration,
                             session_id, has_gpu_info, claudeVars, train_result,
                             pending, ret, loopExit, runStart, loaded>>
         ELSE \E r \in CheckOutcomes :
                IF ResourceCheckExits(r)
                  THEN ProcessEnds(1, "resource_check")
                  ELSE /\ has_gpu_info' = TRUE
                       /\ StartClaude("plan", 0)
                       /\ UNCHANGED <<exitCode, endedBy, max_iterations,
                                      iteration, session_id, train_result,
                                      pending, ret, loopExit, runStart, loaded>>
    /\ UNCHANGED <<clockVars, fsVars>>

\* what the assistant process can return to subprocess.run
ClaudeRecords ==
    [kind : {"record"}, sid : SessionIds \cup {PyNone, "<no key>"},
     cost : BOOLEAN, stderr : {""}]

\* stderr texts of a failed assistant process: empty, the signature in either
\* case, another message, and a long message with the signature past
\* character 200
Stderrs == {"", "rate limit", "Rate Limit", "other", "late rate limit"}

ClaudeOutcomes ==
    ClaudeRecords
    \cup [kind : {"unparseable", "timeout", "exception"}, sid : {PyNone},
          cost : {FALSE}, stderr : {""}]
    \cup [kind : {"nonzero"}, sid : {PyNone}, cost : {FALSE}, stderr : Stderrs]

\* error_msg = result.stderr[:200] if result.stderr else "Unknown error"
ErrorMsg(stderr) ==
    IF stderr = "" THEN "Unknown error"
    ELSE IF stderr = "late rate limit" THEN "other"
    ELSE stderr

\* "rate limit" in error_msg.lower()
IsRateLimit(msg) == msg \in {"rate limit", "Rate Limit"}

\* run_claude with the retry budget off by one
ShouldRetry_offByOne(rc, msg) == rc <= RetryBudget /\ IsRateLimit(msg)

\* run_claude: retry_count < 2 and "rate limit" in error_msg.lower()
ShouldRetry(rc, msg) == rc < RetryBudget /\ IsRateLimit(msg)

\* what the current run_claude call has done so far, one entry per child
\* started, per child ended and per sleep; sid is the session id in a parsed
\* record
Event(e, s, sid) == [ev |-> e, secs |-> s, sid |-> sid]

\* how run_claude classifies the end of the child process
Classify(o) ==
    IF o.kind = "record" THEN (IF o.cost THEN "success" ELSE "malformed")
    ELSE IF o.kind = "unparseable" THEN "malformed"
    ELSE IF o.kind = "nonzero" /\ IsRateLimit(ErrorMsg(o.stderr)) THEN "rate_limited"
    ELSE "failed"

\* run_claude from the return of subprocess.run to its own return, to the
\* backoff sleep, or into the save_status of an adopted session id
ClaudeReturn ==
    /\ pc = "claude_running"
    /\ \E o \in ClaudeOutcomes :
        IF o.kind = "record"
          THEN /\ claudeLog' = Append(claudeLog, Event(Classify(o), 0, o.sid))
               /\ claude_result' = o.cost
               /\ IF o.sid # "<no key>"
                    THEN /\ session_id' = o.sid
                         /\ BeginSave(iteration, o.sid, "claude_done")
                    ELSE /\ pc' = "claude_done"
                         /\ UNCHANGED <<session_id, pending, statusFile, ret>>
        ELSE IF o.kind = "nonzero" /\ ShouldRetry(retry_count, ErrorMsg(o.stderr))
          THEN /\ claudeLog' = claudeLog \o <<Event(Classify(o), 0, "<no key>"),
                                              Event("sleep", BackoffSeconds, "<no key>")>>
               /\ pc' = "claude_backoff"
               /\ UNCHANGED <<claude_result, session_id, pending, statusFile,
                              ret>>
        ELSE /\ claudeLog' = Append(claudeLog, Event(Classify(o), 0, "<no key>"))
             /\ claude_result' = FALSE
             /\ pc' = "claude_done"
             /\ UNCHANGED <<session_id, pending, statusFile, ret>>
    /\ UNCHANGED <<clockVars, ideaFile, planFile, reportFile, scripts,
                   trainLogs, max_iterations, iteration, has_gpu_info,
                   retry_count, caller, cmd, train_result, exitCode, endedBy,
                   loopExit, runStart, loaded>>

\* run_claude, after time.sleep(30): the recursive call
ClaudeRetry ==
    /\ pc = "claude_backoff"
    /\ StartClaude(caller, retry_count + 1)
    /\ UNCHANGED <<clockVars, fsVars, max_iterations, iteration, session_id,
                   has_gpu_info, train_result, pending, ret, exitCode, endedBy,
                   loopExit, runStart, loaded>>

\* save_status, open(status_file, 'w'): the file is truncated
SaveOpen ==
    /\ pc = "save_open"
    /\ statusFile' = TornFile
    /\ pc' = "save_write"
    /\ UNCHANGED <<clockVars, ideaFile, planFile, reportFile, scripts,
                   trainLogs, max_iterations, iteration, session_id,
                   has_gpu_info, claudeVars, train_result, pending, ret,
                   exitCode, endedBy, loopExit, runStart, loaded>>

\* save_status, json.dump into the truncated file, and the return to the
\* caller; after the last save_status run() returns and the process ends
SaveWrite ==
    /\ pc = "save_write"
    /\ statusFile' = pending
    /\ IF ret = "off"
         THEN ProcessEnds(0, loopExit)
         ELSE /\ pc' = ret
              /\ pending' = AbsentFile
              /\ ret' = "none"
              /\ UNCHANGED <<exitCode, endedBy, max_iterations, iteration,
                             session_id, has_gpu_info, claudeVars, train_result,
                             loopExit, runStart, loaded>>
    /\ UNCHANGED <<clockVars, ideaFile, planFile, reportFile, scripts,
                   trainLogs>>

\* run(), after create_initial_plan returned
PlanReturn ==
    /\ pc = "claude_done" /\ caller = "plan"
    /\ IF claude_result
         THEN /\ pc' = "loop"
              /\ claudeLog' = <<>>
              /\ cmd' = <<>>
              /\ UNCHANGED <<exitCode, endedBy, max_iterations, iteration,
                             session_id, has_gpu_info, retry_count, caller,
                             claude_result, train_result, pending, ret,
                             loopExit, runStart, loaded>>
         ELSE ProcessEnds(0, "plan_failed")
    /\ UNCHANGED <<clockVars, fsVars>>

\* run(), the while condition is false
LoopEnd ==
    /\ pc = "loop"
    /\ ~(iteration < max_iterations)
    /\ pc' = "final"
    /\ loopExit' = "budget"
    /\ UNCHANGED <<clockVars, fsVars, max_iterations, iteration, session_id,
                   has_gpu_info, claudeVars, train_result, pending, ret,
                   exitCode, endedBy, runStart, loaded>>

\* run_iteration without the check for REPORT.md
PassBranch_noCheck(report, existing) ==
    IF FindScript(existing) = PyNone THEN "analyze" ELSE "training"

\* run_iteration after the increment: where the pass goes.  REPORT.md there:
\* return False.  No candidate script: run_training returns at once.
\* Otherwise the training script is started.
PassBranch(report, existing) ==
    IF report # "none" THEN "final"
    ELSE IF FindScript(existing) = PyNone THEN "analyze"
    ELSE "training"

\* run_iteration from its start to the return on REPORT.md, to the spawn of
\* the training script (its two log files are opened with 'w' just before),
\* or to the return of run_training without a script
LoopPass ==
    /\ pc = "loop"
    /\ iteration < max_iterations
    /\ iteration' = iteration + 1
    /\ pc' = PassBranch(reportFile, scripts)
    /\ loopExit' = IF pc' = "final" THEN "report" ELSE loopExit
    /\ train_result' = IF pc' = "analyze"
                         THEN <<FALSE, "No training script found">>
                         ELSE <<FALSE, "none">>
    /\ trainLogs' = IF pc' = "training"
                      THEN trainLogs \cup {iteration'} ELSE trainLogs
    /\ UNCHANGED <<clockVars, ideaFile, planFile, reportFile, scripts,
                   statusFile, max_iterations, session_id, has_gpu_info,
                   claudeVars, pending, ret, exitCode, endedBy, runStart,
                   loaded>>

\* how the training child can end
TrainOutcomes == {"exit0", "nonzero", "timeout", "exception"}

\* the (success, message) pair run_training returns
TrainResult(o) ==
    IF o = "exit0" THEN <<TRUE, "Success">>
    ELSE IF o = "nonzero" THEN <<FALSE, "Exit code">>
    ELSE IF o = "timeout" THEN <<FALSE, "Timeout">>
    ELSE <<FALSE, "exception">>

\* run_training from the return of subprocess.run
TrainReturn ==
    /\ pc = "training"
    /\ \E o \in TrainOutcomes : train_result' = TrainResult(o)
    /\ pc' = "analyze"
    /\ UNCHANGED <<clockVars, fsVars, max_iterations, iteration, session_id,
                   has_gpu_info, claudeVars, pending, ret, exitCode, endedBy,
                   loopExit, runStart, loaded>>

\* run_iteration, "Step 2: Analyze with Claude", up to the spawn of the assistant
IterAnalyze ==
    /\ pc = "analyze"
    /\ \E r \in CheckOutcomes :
        IF iteration = 1 /\ ~has_gpu_info /\ ResourceCheckExits(r)
          THEN ProcessEnds(1, "resource_check")
          ELSE /\ has_gpu_info' = (has_gpu_info \/ iteration = 1)
               /\ StartClaude("iter", 0)
               /\ train_result' = <<FALSE, "none">>
               /\ UNCHANGED <<exitCode, endedBy, max_iterations, iteration,
                              session_id, pending, ret, loopExit, runStart,
                              loaded>>
    /\ UNCHANGED <<clockVars, fsVars>>

\* run_iteration, after run_claude returned: save_status and return True
IterFinish ==
    /\ pc = "claude_done" /\ caller = "iter"
    /\ BeginSave(iteration, session_id, "loop")
    /\ claudeLog' = <<>>
    /\ cmd' = <<>>
    /\ UNCHANGED <<clockVars, ideaFile, planFile, reportFile, scripts,
                   trainLogs, max_iterations, iteration, session_id,
                   has_gpu_info, retry_count, caller, claude_result,
                   train_result, exitCode, endedBy, loopExit, runStart, loaded>>

\* run() that returns after the loop without the last save_status
Final_noSave ==
    /\ pc = "final"
    /\ ProcessEnds(0, loopExit)
    /\ UNCHANGED <<clockVars, fsVars>>

\* run(), "Final summary": the last save_status
Final ==
    /\ pc = "final"
    /\ BeginSave(iteration, session_id, "off")
    /\ UNCHANGED <<clockVars, ideaFile, planFile, reportFile, scripts,
                   trainLogs, max_iterations, iteration, session_id,
                   has_gpu_info, claudeVars, train_result, exitCode, endedBy,
                   loopExit, runStart, loaded>>

\* the orchestrator is inside the try block of run()
InLoop ==
    \/ pc \in {"loop", "training", "analyze"}
    \/ pc \in {"claude_running", "claude_backoff", "claude_done"} /\ caller = "iter"
    \/ pc \in {"save_open", "save_write"} /\ ret = "loop"
    \/ pc \in {"save_open", "save_write"} /\ ret = "claude_done" /\ caller = "iter"

\* the orchestrator is inside save_status
Saving == pc \in {"save_open", "save_write"}

\* run(), except KeyboardInterrupt: the user interrupts the loop
Interrupt ==
    /\ InLoop
    /\ pc' = "final"
    /\ loopExit' = "interrupt"
    /\ retry_count' = 0
    /\ caller' = "none"
    /\ cmd' = <<>>
    /\ claude_result' = FALSE
    /\ claudeLog' = <<>>
    /\ train_result' = <<FALSE, "none">>
    /\ pending' = AbsentFile
    /\ ret' = "none"
    /\ UNCHANGED <<clockVars, fsVars, max_iterations, iteration, session_id,
                   has_gpu_info, exitCode, endedBy, runStart, loaded>>

\* ------------------------------------------------------- environment
\* the assistant process, while it runs, writes files of the directory
AssistantWrites ==
    /\ pc = "claude_running"
    /\ \/ planFile' = TRUE /\ UNCHANGED <<reportFile, scripts>>
       \/ reportFile' = "assistant" /\ UNCHANGED <<planFile, scripts>>
       \/ scripts' = scripts \cup {TrainScripts[2]} /\ UNCHANGED <<planFile, reportFile>>
    /\ UNCHANGED <<clockVars, ideaFile, trainLogs, statusFile, pc,
                   max_iterations, iteration, session_id, has_gpu_info,
                   claudeVars, train_result, pending, ret, exitCode, endedBy,
                   loopExit, runStart, loaded>>

\* the clock advances by just more than the hour budget (which is also past
\* the staleness threshold: every watchdog decision on the age of a document
\* is then "stop"), while the orchestrator waits or does not run; the ages in
\* between are those of SpecWatchdog
TickSteps == {MaxHoursDefault + 1}

Waiting == pc \in {"off", "loop", "training", "claude_running", "claude_backoff"}

Tick ==
    /\ Waiting
    /\ ticks < MaxTicks
    /\ ticks' = ticks + 1
    /\ \E d \in TickSteps : now' = now + d
    /\ UNCHANGED <<fsVars, pc, max_iterations, iteration, session_id,
                   has_gpu_info, claudeVars, train_result, pending, ret,
                   exitCode, endedBy, loopExit, runStart, loaded>>

\* ------------------------------------------------------------ watchdog
\* a watchdog that removes status.json when it stops the experiment
Watchdog_deletesStatus ==
    /\ reportFile' = WatchdogMain(statusFile, now, reportFile).report
    /\ statusFile' = IF WatchdogMain(statusFile, now, reportFile).stop
                       THEN AbsentFile ELSE statusFile
    /\ UNCHANGED <<clockVars, ideaFile, planFile, scripts, trainLogs, pc,
                   max_iterations, iteration, session_id, has_gpu_info,
                   claudeVars, train_result, pending, ret, exitCode, endedBy,
                   loopExit, runStart, loaded>>

\* one whole invocation of the watchdog on the experiment directory
Watchdog ==
    /\ reportFile' = WatchdogMain(statusFile, now, reportFile).report
    /\ UNCHANGED <<clockVars, ideaFile, planFile, scripts, trainLogs,
                   statusFile, pc, max_iterations, iteration, session_id,
                   has_gpu_info, claudeVars, train_result, pending, ret,
                   exitCode, endedBy, loopExit, runStart, loaded>>

Next ==
    \/ Construct
    \/ RunLoad
    \/ Planning
    \/ ClaudeReturn
    \/ ClaudeRetry
    \/ SaveOpen
    \/ SaveWrite
    \/ PlanReturn
    \/ LoopEnd
    \/ LoopPass
    \/ TrainReturn
    \/ IterAnalyze
    \/ IterFinish
    \/ Final
    \/ Interrupt
    \/ AssistantWrites
    \/ Tick
    \/ Watchdog

Spec == Init /\ [][Next]_vars

\* ------------------------------------------- the watchdog on its own
\* experiment directories an orchestrator can have left behind, at any clock
\* value up to MaxAge
StoredDocs(t) ==
    {StatusDoc(i, ts, FALSE, PyNone) : i \in 0..MaxStoredIter, ts \in 0..t}

InitWatchdog ==
    /\ now \in 0..MaxAge
    /\ ticks = 0
    /\ ideaFile = TRUE
    /\ planFile = TRUE
    /\ reportFile \in {"none", "assistant"}
    /\ scripts = {}
    /\ trainLogs = {}
    /\ statusFile \in {AbsentFile} \cup StoredDocs(now)
    /\ pc = "off"
    /\ max_iterations = 0
    /\ iteration = 0
    /\ session_id = PyNone
    /\ has_gpu_info = FALSE
    /\ retry_count = 0
    /\ caller = "none"
    /\ cmd = <<>>
    /\ claude_result = FALSE
    /\ claudeLog = <<>>
    /\ train_result = <<FALSE, "none">>
    /\ pending = AbsentFile
    /\ ret = "none"
    /\ exitCode = -1
    /\ endedBy = "none"
    /\ loopExit = "none"
    /\ runStart = 0
    /\ loaded = 0

NextWatchdog == Watchdog

SpecWatchdog == InitWatchdog /\ [][NextWatchdog]_vars

\* ---------------------------------------------------------------- C4
Age == now - statusFile.timestamp

\* C4: for every status document and clock value the watchdog decides "stop"
\* exactly when the document is older than 24 h, or its iteration is above 20,
\* or it is older than 2 h; the reason is the runtime reason in the first
\* case, else the iteration ceiling, else staleness; REPORT.md is written
\* exactly when the decision is "stop"; without a status document nothing is
\* stopped or written.
C4_Decision ==
    LET r == WatchdogMain(statusFile, now, reportFile) IN
    /\ statusFile.state = "absent" =>
          ~r.stop /\ r.report = reportFile /\ r.exit = 0
    /\ statusFile.state = "ok" =>
          /\ r.stop <=> (Age > 24 \/ statusFile.iteration > 20 \/ Age > 2)
          /\ r.stop => r.reason = (IF Age > 24 THEN "runtime"
                                    ELSE IF statusFile.iteration > 20 THEN "iterations"
                                    ELSE "stale")
          /\ r.stop => r.report = "watchdog"
          /\ ~r.stop => r.report = reportFile
          /\ (Age = 25 /\ statusFile.iteration = 5) => r.stop /\ r.reason = "runtime"
          /\ (Age = 1 /\ statusFile.iteration = 21) => r.stop /\ r.reason = "iterations"
          /\ (Age = 0 /\ statusFile.iteration = 3) => ~r.stop

C4_WatchdogDecides ==
    /\ []C4_Decision
    /\ [][reportFile' # reportFile =>
            /\ reportFile' = "watchdog"
            /\ statusFile.state = "ok"
            /\ (Age > 24 \/ statusFile.iteration > 20 \/ Age > 2)]_vars

\* the iteration-ceiling case has happened: a one hour old document with
\* iteration 21, and the watchdog has written REPORT.md
C4_Witness ==
    /\ statusFile.state = "ok" /\ Age = 1 /\ statusFile.iteration = 21
    /\ reportFile = "watchdog"

\* ---------------------------------------------------------------- C1
\* the orchestrator is inside a loop pass
InPass == InLoop /\ pc # "loop"

\* C1: the iteration in the persisted status document never decreases, a
\* restarted orchestrator resumes from the stored iteration, and after each
\* loop pass (when the pass returns to the loop head, or when the process
\* ends) the persisted iteration is the number of that pass, which is larger
\* than what was persisted before the pass.
C1_PersistedIteration ==
    /\ [][(statusFile.state = "ok" /\ statusFile'.state = "ok")
            => statusFile'.iteration >= statusFile.iteration]_vars
    /\ [][(statusFile.state = "ok" /\ statusFile'.state = "torn")
            => pending'.iteration >= statusFile.iteration]_vars
    /\ [](pc = "planning" /\ statusFile.state = "ok"
            => iteration = statusFile.iteration)
    /\ [][(pc = "loop" /\ iteration' = iteration + 1 /\ statusFile.state = "ok")
            => statusFile.iteration < iteration']_vars
    /\ [][((InPass \/ (Saving /\ ret = "off")) /\ pc' \in {"loop", "off"})
            => (statusFile'.state = "ok" /\ statusFile'.iteration = iteration)]_vars

\* ---------------------------------------------------------------- C2
\* C2: a loop pass that finds REPORT.md at its completion check goes straight
\* to the end of the loop, starting neither the training script nor the
\* assistant, and after the loop has ended no pass follows in this run.
C2_ReportEndsLoop ==
    /\ [][(pc = "loop" /\ iteration' = iteration + 1 /\ reportFile # "none")
            => (pc' = "final" /\ loopExit' = "report")]_vars
    /\ [][(pc = "final" \/ (Saving /\ ret = "off"))
            => /\ pc' \in {"final", "save_open", "save_write", "off"}
               /\ Saving' => ret' = "off"
               /\ pc' # "off" => iteration' = iteration]_vars

\* a pass has found REPORT.md and left the loop
C2_Witness == pc = "final" /\ loopExit = "report" /\ reportFile # "none"

\* ---------------------------------------------------------------- C3
Spawns(log) == {i \in 1..Len(log) : log[i].ev = "spawn"}

RateLimited(log) == {i \in 1..Len(log) : log[i].ev = "rate_limited"}

\* C3: within one run_claude call a retry follows only a rate-limited
\* failure, only while fewer than 2 retries were made, and only after a 30
\* second sleep; there are at most 3 attempts; two rate-limited failures and
\* a success give two retries and success, three rate-limited failures give
\* failure after the third attempt, any other failure gives failure at once.
C3_BoundedRetry ==
    LET n == Len(claudeLog) IN
    /\ Cardinality(Spawns(claudeLog)) <= 3
    /\ \A i \in 1..n :
         /\ (claudeLog[i].ev = "spawn" /\ i > 1) =>
              /\ i > 2
              /\ claudeLog[i-1].ev = "sleep" /\ claudeLog[i-1].secs = 30
              /\ claudeLog[i-2].ev = "rate_limited"
              /\ Cardinality({j \in 1..(i-1) : claudeLog[j].ev = "spawn"}) - 1 < 2
         /\ claudeLog[i].ev = "sleep" => (i > 1 /\ claudeLog[i-1].ev = "rate_limited")
         /\ claudeLog[i].ev \in {"failed", "malformed", "success"} => i = n
    /\ pc = "claude_done" =>
         /\ n >= 2
         /\ claude_result <=> claudeLog[n].ev = "success"
         /\ (Cardinality(RateLimited(claudeLog)) = 2 /\ claudeLog[n].ev = "success")
              => (claude_result /\ Cardinality(Spawns(claudeLog)) = 3)
         /\ Cardinality(RateLimited(claudeLog)) = 3
              => (~claude_result /\ Cardinality(Spawns(claudeLog)) = 3
                  /\ claudeLog[n].ev = "rate_limited")
         /\ claudeLog[n].ev = "failed" => ~claude_result

\* two rate-limited failures, then success on the third attempt
C3_Witness ==
    /\ pc = "claude_done" /\ claude_result
    /\ Cardinality(Spawns(claudeLog)) = 3
    /\ Cardinality(RateLimited(claudeLog)) = 2

\* ---------------------------------------------------------------- C5
\* C5: a session id returned in a parsed record is adopted and written to the
\* status document before run_claude returns, and every assistant command is
\* built with the resume flag and exactly the held session id, which is the
\* one the status document stores.
C5_SessionContinuity ==
    /\ pc = "claude_running" =>
         /\ statusFile.state = "ok" =>
              statusFile.session_id = (IF session_id = PyNone THEN JsonNull ELSE session_id)
         /\ statusFile.state = "absent" => session_id = PyNone
         /\ statusFile.state # "torn"
         /\ session_id \in SessionIds => cmd = <<"--resume", session_id>>
         /\ session_id = PyNone => cmd = <<>>
    /\ (pc = "claude_done" \/ (Saving /\ ret = "claude_done")) =>
         LET e == claudeLog[Len(claudeLog)] IN
         (e.ev \in {"success", "malformed"} /\ e.sid # "<no key>") =>
            /\ session_id = e.sid
            /\ Saving =>
                 pending.session_id = (IF e.sid = PyNone THEN JsonNull ELSE e.sid)
            /\ pc = "claude_done" =>
                 /\ statusFile.state = "ok"
                 /\ statusFile.session_id = (IF e.sid = PyNone THEN JsonNull ELSE e.sid)

\* an assistant command of the second pass resumes the stored session
C5_Witness ==
    /\ pc = "claude_running" /\ caller = "iter" /\ iteration = 2
    /\ session_id = SessionNames[2]
    /\ statusFile.state = "ok" /\ statusFile.session_id = SessionNames[2]
    /\ cmd = <<"--resume", SessionNames[2]>>

\* ---------------------------------------------------------------- C6
\* C6: what save_status writes is the iteration and session id held, and a
\* fresh orchestrator that has read the document back, before any pass,
\* holds the stored iteration and session id (None for a stored null).
C6_RoundTrip ==
    /\ [][(pc = "save_write" /\ statusFile' # statusFile) =>
            /\ statusFile' = pending
            /\ statusFile'.state = "ok"
            /\ statusFile'.iteration = iteration
            /\ statusFile'.session_id = (IF session_id = PyNone THEN JsonNull ELSE session_id)]_vars
    /\ [](pc = "planning" =>
            /\ statusFile.state = "ok" =>
                 /\ iteration = statusFile.iteration
                 /\ session_id = (IF statusFile.session_id = JsonNull
                                    THEN PyNone ELSE statusFile.session_id)
            /\ statusFile.state = "absent" => (iteration = 0 /\ session_id = PyNone))

\* a restarted orchestrator has read back a positive iteration and a session id
C6_Witness ==
    /\ pc = "planning" /\ statusFile.state = "ok"
    /\ statusFile.iteration > 0 /\ iteration = statusFile.iteration
    /\ session_id \in SessionIds /\ statusFile.session_id = session_id

\* ---------------------------------------------------------------- C7
\* C7: whenever more than 24 hours have passed since run() began and a status
\* document exists, a watchdog invocation stops the experiment for the
\* runtime reason and REPORT.md exists afterwards.
C7_HardCeiling ==
    (pc \notin {"off", "constructed"} /\ statusFile.state = "ok"
       /\ now - runStart > 24) =>
        LET r == WatchdogMain(statusFile, now, reportFile) IN
        r.stop /\ r.reason = "runtime" /\ r.report # "none"

\* ---------------------------------------------------------------- C8
\* C8: with REPORT.md written by the watchdog while the orchestrator is in
\* its loop, no further training script is started, the next loop check ends
\* the loop, the process does not end before its final save, and the final
\* save records complete = true.
C8_WatchdogStopsLoop ==
    /\ [][(reportFile # "none" /\ pc # "training") => pc' # "training"]_vars
    /\ [][(reportFile = "watchdog" /\ pc = "loop" /\ pc' # pc) => pc' = "final"]_vars
    /\ [][(reportFile = "watchdog" /\ InLoop) => (InLoop' \/ pc' = "final")]_vars
    /\ [][(reportFile = "watchdog" /\ pc = "final" /\ pc' # pc)
            => (pc' = "save_open" /\ pending'.complete)]_vars

\* ---------------------------------------------------------------- C9
\* C9: in a pass, after a failed computation the assistant is still invoked;
\* after a failed assistant invocation the pass still saves the status and
\* returns to the loop; and the loop starts the next pass while iteration <
\* max_iterations and REPORT.md is absent (a user interrupt apart).
C9_DegradedContinuation ==
    /\ [][(pc = "analyze" /\ ~train_result[1] /\ pc' # pc)
            => pc' \in {"claude_running", "final"}]_vars
    /\ [][(pc = "claude_done" /\ caller = "iter" /\ ~claude_result /\ pc' # pc)
            => ((pc' = "save_open" /\ ret' = "loop") \/ pc' = "final")]_vars
    /\ [][(pc = "save_open" /\ ret = "loop" /\ pc' # pc)
            => ((pc' = "save_write" /\ ret' = "loop") \/ pc' = "final")]_vars
    /\ [][(pc = "save_write" /\ ret = "loop" /\ pc' # pc)
            => ((pc' = "loop" /\ statusFile'.state = "ok") \/ pc' = "final")]_vars
    /\ [][(pc = "loop" /\ iteration < max_iterations /\ reportFile = "none" /\ pc' # pc)
            => pc' \in {"training", "analyze", "final"}]_vars

\* --------------------------------------------------------------- C10
\* C10: once in the loop, the orchestrator leaves it only for the final
\* summary, because the budget is exhausted, REPORT.md was found or the user
\* interrupted, and the final save_status follows.
C10_OnlyStartupHalts ==
    /\ [][(InLoop /\ ~InLoop')
            => (pc' = "final" /\ loopExit' \in {"budget", "report", "interrupt"})]_vars
    /\ [][(pc = "final" /\ pc' # pc) => (pc' = "save_open" /\ ret' = "off")]_vars
    /\ [][(pc = "save_open" /\ ret = "off" /\ pc' # pc)
            => (pc' = "save_write" /\ ret' = "off")]_vars
    /\ [][(pc = "save_write" /\ ret = "off" /\ pc' # pc)
            => (pc' = "off" /\ exitCode' = 0 /\ statusFile'.state = "ok")]_vars

\* --------------------------------------------------------------- C11
\* C11: a user interrupt inside the loop keeps the iteration and session id
\* held and takes the orchestrator to the final summary; from there no pass
\* starts and no child process is spawned, and the process ends only through
\* a completed save_status that leaves a readable document holding the
\* iteration and session id the orchestrator held.
C11_InterruptSaves ==
    /\ [][(loopExit # "interrupt" /\ loopExit' = "interrupt")
            => (InLoop /\ pc' = "final" /\ iteration' = iteration
                /\ session_id' = session_id)]_vars
    /\ [][(loopExit = "interrupt" /\ pc' # pc)
            => (/\ pc' \in {"save_open", "save_write", "off"}
                /\ Saving' =>
                     (ret' = "off" /\ iteration' = iteration
                      /\ session_id' = session_id)
                /\ pc' = "off" =>
                     (/\ pc = "save_write"
                      /\ exitCode' = 0
                      /\ statusFile'.state = "ok"
                      /\ statusFile'.iteration = iteration
                      /\ statusFile'.session_id = JsonOfPy(session_id)))]_vars
    /\ [](loopExit = "interrupt" => pc \in {"final", "save_open", "save_write"})

\* an interrupted run has ended after its save, with a pass and a session on record
C11_Witness ==
    /\ pc = "off" /\ endedBy = "interrupt" /\ exitCode = 0
    /\ statusFile.state = "ok" /\ statusFile.iteration >= 1
    /\ statusFile.session_id \in SessionIds

\* --------------------------------------------------------------- C12
\* C12: a watchdog invocation, stopping or not, leaves status.json as it is
\* (no field changed, not deleted); the only file it can write is REPORT.md.
C12_WatchdogFrame ==
    [][/\ statusFile' = statusFile
       /\ UNCHANGED <<ideaFile, planFile, scripts, trainLogs>>]_vars

\* the watchdog has stopped a stale experiment and its status document is
\* still the one that was there
C12_Witness ==
    /\ reportFile = "watchdog"
    /\ statusFile.state = "ok" /\ statusFile.iteration = 3 /\ Age = 3

\* --------------------------------------------------------------- C13
\* C13: when the status document read at the start of run() says complete =
\* true, the orchestrator's next step ends the process with exit code 0: no
\* planning, no child process, and status.json and the other files of the
\* directory are as they were.
C13_AlreadyComplete ==
    [][(pc = "constructed" /\ statusFile.state = "ok" /\ statusFile.complete
          /\ pc' # pc)
        => (/\ pc' = "off" /\ exitCode' = 0 /\ endedBy' = "complete"
            /\ statusFile' = statusFile
            /\ UNCHANGED <<planFile, reportFile, scripts, trainLogs>>)]_vars

\* a run on a directory whose status says complete, with passes on record,
\* has ended at the load
C13_Witness ==
    /\ pc = "off" /\ endedBy = "complete" /\ exitCode = 0
    /\ statusFile.state = "ok" /\ statusFile.complete
    /\ statusFile.iteration >= 1

\* --------------------------------------------------------------- C14
\* C14: in every reachable state, whatever the orchestrator is doing, a
\* watchdog invocation ends with exit code 0.
C14_WatchdogExitsZero == WatchdogMain(statusFile, now, reportFile).exit = 0

\* --------------------------------------------------------------- C15
\* the planning call of run() is under way
InPlanCall ==
    /\ caller = "plan"
    /\ \/ pc \in {"claude_running", "claude_backoff", "claude_done"}
       \/ Saving /\ ret = "claude_done"

\* C15: without PLAN.md the orchestrator's step after the load is the
\* planning invocation of the assistant; while that call is under way no pass
\* has run and the iteration is the loaded one; a failed call ends the
\* process with no pass, no training log and status.json as it was; a
\* successful call enters the loop; with PLAN.md present the orchestrator
\* enters the loop without an invocation.
C15_PlanningGate ==
    /\ [][(pc = "planning" /\ ~planFile /\ pc' # pc)
            => (pc' = "claude_running" /\ caller' = "plan"
                /\ retry_count' = 0)]_vars
    /\ [](InPlanCall => (iteration = loaded /\ ~InLoop))
    /\ [][(pc = "claude_done" /\ caller = "plan" /\ ~claude_result /\ pc' # pc)
            => (/\ pc' = "off" /\ endedBy' = "plan_failed"
                /\ statusFile' = statusFile /\ trainLogs' = trainLogs)]_vars
    /\ [][(pc = "claude_done" /\ caller = "plan" /\ claude_result /\ pc' # pc)
            => (pc' = "loop" /\ iteration' = iteration)]_vars
    /\ [][(pc = "planning" /\ planFile /\ pc' # pc)
            => (pc' = "loop" /\ UNCHANGED claudeVars)]_vars

\* --------------------------------------------------------------- C16
\* the passes the loop of this run has started
PassesDone == iteration - loaded

\* C16: in a run, the iteration changes only by the load and by one per pass
\* started while iteration < max_iterations; the passes started number at
\* most max_iterations minus the loaded iteration (none when the loaded
\* iteration is already max_iterations or more) and the iteration is never
\* above the larger of the two; and a run that has entered the loop ends
\* only through its final save_status, which leaves a readable document.
C16_BoundedRun ==
    /\ [][(iteration' # iteration /\ pc # "off" /\ pc' # "off")
            => \/ pc = "constructed"
               \/ (pc = "loop" /\ iteration < max_iterations
                   /\ iteration' = iteration + 1)]_vars
    /\ [](pc \notin {"off", "constructed"} =>
            /\ PassesDone >= 0
            /\ PassesDone <= (IF loaded >= max_iterations THEN 0
                               ELSE max_iterations - loaded)
            /\ iteration <= (IF max_iterations >= loaded THEN max_iterations
                              ELSE loaded))
    /\ [][((InLoop \/ pc = "final" \/ (Saving /\ ret = "off"))
            /\ pc' = "off")
            => (pc = "save_write" /\ ret = "off" /\ statusFile'.state = "ok"
                /\ statusFile'.iteration = iteration)]_vars

\* --------------------------------------------------------------- C17
\* REPORT.md, once there, stays; a stored complete = true implies REPORT.md
\* exists; and a stored complete = true is never replaced by complete = false
C17_Forward ==
    /\ [][reportFile # "none" => reportFile' # "none"]_vars
    /\ [](statusFile.state = "ok" /\ statusFile.complete => reportFile # "none")
    /\ [][(statusFile.state = "ok" /\ statusFile.complete)
            => /\ statusFile'.state = "ok" => statusFile'.complete
               /\ statusFile'.state = "torn" => pending'.complete
               /\ statusFile'.state # "absent"]_vars

\* C17, as stated: the document a save writes has complete = true exactly
\* when REPORT.md exists at the moment the document is written, and
\* completion only moves forward.
C17_CompleteAtWrite ==
    /\ [][(pc = "save_write" /\ statusFile' # statusFile)
            => (statusFile'.complete <=> reportFile' # "none")]_vars
    /\ C17_Forward

\* C17, amended: the document a save writes has complete = true exactly when
\* REPORT.md existed when save_status built the document, before it opened
\* the file; at the moment of the write complete = true still implies that
\* REPORT.md exists; and completion only moves forward.
C17_CompleteAtCheck ==
    /\ [][(pc # "save_open" /\ pc' = "save_open")
            => (pending'.complete <=> reportFile # "none")]_vars
    /\ [][(pc = "save_write" /\ statusFile' # statusFile)
            => (statusFile' = pending
                /\ (statusFile'.complete => reportFile # "none"))]_vars
    /\ C17_Forward

\* a run has ended with its final save: the watchdog wrote REPORT.md after
\* save_status had looked for it, and the document just written says
\* complete = false
C17_Witness ==
    /\ pc = "off" /\ exitCode = 0 /\ reportFile = "watchdog"
    /\ statusFile.state = "ok" /\ ~statusFile.complete
    /\ statusFile.timestamp = now

\* --------------------------------------------------------------- C18
\* C18: whenever the training script is started, no earlier start on this
\* directory ran under the same iteration number, so the log files
\* iter_N_stdout.txt and iter_N_stderr.txt it opens for writing do not exist.
C18_FreshTrainingLogs ==
    [][(pc = "loop" /\ pc' = "training") => iteration' \notin trainLogs]_vars

\* --------------------------------------------------------------- C19
\* C19: a watchdog invocation on a directory that already holds REPORT.md
\* leaves REPORT.md as it is, whatever the age of the status document.
C19_ReportKept ==
    [][reportFile # "none" => reportFile' = reportFile]_vars

\* --------------------------------------------------------------- C20
\* the last event of the current run_claude call is a parsed record that has
\* the key "session_id"
RecordWithSession(log) ==
    /\ Len(log) > 0
    /\ log[Len(log)].ev \in {"success", "malformed"}
    /\ log[Len(log)].sid # "<no key>"

\* C20: in a running orchestrator the held session id changes only in the
\* step in which the assistant has exited with code 0 and its output parsed
\* to a record with the key "session_id", and then to that record's value;
\* every save writes the held id, and a save that changes the stored id is
\* begun only in such a step, or after an interrupt that came between such a
\* step and its write;
\* every other end of an assistant call (non-zero exit, timeout, unparseable
\* output, record without the key) and every retry leave the held id and
\* status.json as they are; a restarted orchestrator holds the stored id;
\* and outside save_status (an interrupted save apart) the stored id is the
\* held one.
C20_SessionPreserved ==
    /\ [][(session_id' # session_id /\ pc # "off" /\ pc' # "off")
            => (/\ pc = "claude_running"
                /\ RecordWithSession(claudeLog')
                /\ session_id' = claudeLog'[Len(claudeLog')].sid)]_vars
    /\ [][(pc # "save_open" /\ pc' = "save_open")
            => (/\ pending'.session_id = JsonOfPy(session_id')
                /\ (statusFile.state = "ok"
                    /\ pending'.session_id # statusFile.session_id)
                     => \/ (pc = "claude_running" /\ RecordWithSession(claudeLog'))
                        \/ loopExit = "interrupt")]_vars
    /\ [][(pc = "claude_running" /\ pc' # pc /\ ~RecordWithSession(claudeLog')
            /\ pc' \in {"claude_done", "claude_backoff"})
            => (session_id' = session_id /\ statusFile' = statusFile)]_vars
    /\ [][(pc = "claude_backoff" /\ pc' # pc /\ pc' # "final")
            => (pc' = "claude_running" /\ session_id' = session_id
                /\ statusFile' = statusFile)]_vars
    /\ [][(pc = "off" /\ pc' = "constructed")
            => (/\ statusFile' = statusFile
                /\ statusFile.state = "ok"
                     => session_id' = PyOfJson(statusFile.session_id)
                /\ statusFile.state = "absent" => session_id' = PyNone)]_vars
    /\ []((pc \notin {"off", "save_open", "save_write"} /\ loopExit # "interrupt"
             /\ statusFile.state = "ok")
            => statusFile.session_id = JsonOfPy(session_id))

\* with a session on record, an assistant call of a pass has failed after two
\* retries, and the held and the stored session id are still that session
C20_Witness ==
    /\ pc = "claude_done" /\ caller = "iter" /\ ~claude_result
    /\ Cardinality(Spawns(claudeLog)) = 3
    /\ claudeLog[Len(claudeLog)].ev = "rate_limited"
    /\ session_id \in SessionIds
    /\ statusFile.state = "ok" /\ statusFile.session_id = session_id

====
